---- MODULE Spec2Model ----
(***************************************************************************)
(* rovcheck (src/main.rs): a command-line probe that issues one HTTP GET   *)
(* to a "valid" endpoint and one to an "invalid" endpoint and logs OK when *)
(* the first succeeds and the second fails, NOK otherwise.                 *)
(*                                                                         *)
(* The model follows main() statement by statement.  Strings are sequences *)
(* of one-character strings.  The crates main() calls (url, nanoid,        *)
(* reqwest, serde_json) are modelled by what the calls in main.rs rely on: *)
(* Url::parse / Url::join on the configured base URLs, nanoid!(10, alph),  *)
(* one send() per get_url, and the decode of the body into IsBgpSafeYet.   *)
(***************************************************************************)
EXTENDS Integers, Sequences, FiniteSets, TLC

\* ------------------------------------------------------------------ bounds

\* Longest --alphabet the model draws (the characters are taken from Chars).
MaxAlphabetLen == 2

\* ---------------------------------------------------------- program constants

\* nanoid!(10, &alphabet): the identifier's size.
IdLen == 10

\* ------------------------------------------------------------------ strings

\* Characters an --alphabet is drawn from (unreserved URL characters).
Chars == {"a", "b"}

\* All sequences over S of length exactly n.
SeqsOfLen(S, n) == [1..n -> S]

SeqsUpTo(S, n) == UNION {SeqsOfLen(S, k) : k \in 0..n}

\* Index of the first occurrence of c in s, 0 when there is none.
IndexOf(s, c) ==
    IF \E i \in 1..Len(s) : s[i] = c
    THEN CHOOSE i \in 1..Len(s) : s[i] = c /\ \A j \in 1..(i - 1) : s[j] # c
    ELSE 0

Range(s) == {s[i] : i \in 1..Len(s)}

Front(s) == SubSeq(s, 1, Len(s) - 1)

\* The texts "https", "mailto" as character sequences.
Https == <<"h", "t", "t", "p", "s">>
Mailto == <<"m", "a", "i", "l", "t", "o">>

\* Base URLs given on the command line (--valid-url, --invalid-url).
\* "https://v": the shape of the defaults, an authority and no path.
UrlRoot(h) == Https \o <<":", "/", "/", h>>
\* "https://v/p/q": a path whose last segment the join replaces.
UrlFile(h) == Https \o <<":", "/", "/", h, "/", "p", "/", "q">>
\* "v/p": no scheme, Url::parse fails (relative URL without a base).
UrlNoScheme(h) == <<h, "/", "p">>
\* "mailto:v": parses, but cannot be a base, so Url::join fails.
UrlOpaque(h) == Mailto \o <<":", h>>

ValidUrls == {UrlRoot("v"), UrlFile("v"), UrlNoScheme("v"), UrlOpaque("v")}
InvalidUrls == {UrlRoot("i"), UrlNoScheme("i"), UrlOpaque("i")}

\* ---------------------------------------------------------------- url crate

\* The Err(_) of Url::parse / Url::join; every field is present so that a
\* result is always a record of one shape.
UrlErr ==
    [ok |-> FALSE, scheme |-> <<>>, host |-> <<>>, path |-> <<>>,
     cannot_be_a_base |-> FALSE]

RECURSIVE Segments(_)
\* The path segments of "/s1/s2/...": "" and "/" both give the one empty
\* segment of the root path.
Segments(s) ==
    IF s = <<>> THEN << <<>> >>
    ELSE LET t == Tail(s)
             j == IndexOf(t, "/")
         IN  IF j = 0 THEN <<t>>
             ELSE <<SubSeq(t, 1, j - 1)>> \o Segments(SubSeq(t, j, Len(t)))

RECURSIVE StripSlashes(_)
\* s without its leading "/"s.
StripSlashes(s) ==
    IF s # <<>> /\ s[1] = "/" THEN StripSlashes(Tail(s)) ELSE s

\* A scheme is a non-empty run of letters before the first ":".
HasScheme(s) ==
    LET i == IndexOf(s, ":")
    IN  i > 1 /\ \A k \in 1..(i - 1) : s[k] \notin {"/", ":"}

\* Url::parse(&text): Err for a text without a scheme or (https) without a
\* host; a cannot-be-a-base URL for "scheme:opaque"; otherwise scheme, host
\* and path segments.
UrlParse(s) ==
    IF ~HasScheme(s) THEN UrlErr
    ELSE LET i == IndexOf(s, ":")
             scheme == SubSeq(s, 1, i - 1)
             rest == SubSeq(s, i + 1, Len(s))
         IN  IF scheme = Https
             THEN LET auth == StripSlashes(rest)
                      j == IndexOf(auth, "/")
                      host == IF j = 0 THEN auth ELSE SubSeq(auth, 1, j - 1)
                      tail == IF j = 0 THEN <<>> ELSE SubSeq(auth, j, Len(auth))
                  IN  IF host = <<>> THEN UrlErr
                      ELSE [ok |-> TRUE, scheme |-> scheme, host |-> host,
                            path |-> Segments(tail), cannot_be_a_base |-> FALSE]
             ELSE IF rest # <<>> /\ rest[1] = "/"
             THEN [ok |-> TRUE, scheme |-> scheme, host |-> <<>>,
                   path |-> Segments(rest), cannot_be_a_base |-> FALSE]
             ELSE [ok |-> TRUE, scheme |-> scheme, host |-> <<>>,
                   path |-> <<rest>>, cannot_be_a_base |-> TRUE]

\* base.join(&input) for an input without "/", "?" or "#" (an identifier
\* over Chars): an input with a scheme is parsed on its own; a relative
\* input fails on a cannot-be-a-base URL; the empty input gives the base
\* back; otherwise the input replaces the base's last path segment.
UrlJoin(base, input) ==
    IF HasScheme(input) THEN UrlParse(input)
    ELSE IF base.cannot_be_a_base THEN UrlErr
    ELSE IF input = <<>> THEN base
    ELSE [base EXCEPT !.path = Front(base.path) \o <<input>>]

\* Url::parse of each base URL the command line can give: UrlParse,
\* evaluated once per text.
Parsed == [text \in ValidUrls \cup InvalidUrls |-> UrlParse(text)]

\* Mutant: the join with the identifier is left out.
ParseWithoutJoin(text, ident) == Parsed[text]

\* Lines 86-87 and 95-96: Url::parse(&text)?.join(&id)? -- the first Err
\* is the result.
ParseAndJoin(text, ident) ==
    LET parsed == Parsed[text]
    IN  IF ~parsed.ok THEN UrlErr ELSE UrlJoin(parsed, ident)

\* ------------------------------------------------------------------- nanoid

\* Mutant: nanoid!(size), the crate's default alphabet instead of the given one.
NanoidDefaultAlphabet(size, alphabet) == SeqsOfLen(Chars, size)

\* nanoid!(size, &alphabet): the identifiers the call can return, size
\* characters each drawn from the alphabet.
Nanoid(size, alphabet) == SeqsOfLen(Range(alphabet), size)

\* --------------------------------------------------------- remote endpoint

\* A response body.  json: the body is a JSON object; the other fields give,
\* per key of IsBgpSafeYet, what the object holds under that key.
Body(json, status, asn, name, blackholed) ==
    [json |-> json, status |-> status, asn |-> asn, name |-> name,
     blackholed |-> blackholed]

\* "<html>...": not JSON.
BodyNotJson == Body(FALSE, "absent", "absent", "absent", "absent")
\* {"status": "valid", "asn": 64512, "name": "x", "blackholed": false}
BodySchema == Body(TRUE, "string", "u32", "string", "bool")
\* {"unexpected": true}
BodyUnexpected == Body(TRUE, "absent", "absent", "absent", "absent")
\* as BodySchema with "asn": 4294967296, which no u32 holds
BodyAsnOverflow == Body(TRUE, "string", "over_u32", "string", "bool")

Bodies == {BodyNotJson, BodySchema, BodyUnexpected, BodyAsnOverflow}

\* HTTP statuses the endpoint may answer with.
Statuses == {200, 500}

\* What the endpoint does with one GET: it answers (status, body) within
\* the timeout, the transport fails (DNS, connection refused), or nothing
\* arrives within the timeout.
Responds(status, body) ==
    [kind |-> "response", status |-> status, body |-> body, error |-> "none"]
TransportFails(e) ==
    [kind |-> "transport", status |-> 0, body |-> BodyNotJson, error |-> e]
Silent ==
    [kind |-> "silent", status |-> 0, body |-> BodyNotJson, error |-> "none"]
\* No request in flight.
NoRequest ==
    [kind |-> "none", status |-> 0, body |-> BodyNotJson, error |-> "none"]

Behaviours ==
    {Responds(st, b) : st \in Statuses, b \in Bodies}
        \cup {TransportFails(e) : e \in {"dns", "refused"}}
        \cup {Silent}

\* ------------------------------------------------------- get_url and friends

\* response.json::<IsBgpSafeYet>(): the body is a JSON object holding
\* status: String, asn: u32, name: String, blackholed: bool.
Decode(body) ==
    /\ body.json
    /\ body.status = "string"
    /\ body.asn = "u32"
    /\ body.name = "string"
    /\ body.blackholed = "bool"

\* The Result of get_url; NoResult before any call has returned.
ResultOk == [ok |-> TRUE, error |-> "none"]
ResultErr(e) == [ok |-> FALSE, error |-> e]
NoResult == [ok |-> FALSE, error |-> "unset"]

\* get_url: send().await? fails on a transport error or on the timeout;
\* json().await? fails when the body does not decode.  The response's status
\* is not looked at.
get_url(beh) ==
    IF beh.kind = "transport" THEN ResultErr("transport")
    ELSE IF beh.kind = "silent" THEN ResultErr("timeout")
    ELSE IF ~Decode(beh.body) THEN ResultErr("decode")
    ELSE ResultOk

\* Mutant: the Err arm returns true as well.
check_success_err_true(res) == TRUE

\* check_success: Ok(_) => true, Err(_) => false.
check_success(res) == res.ok

\* Mutant: || for &&.
VerdictOr(valid, invalid) == IF valid \/ ~invalid THEN "OK" ELSE "NOK"

\* Lines 100-104: the line main logs at info level.
Verdict(valid, invalid) == IF valid /\ ~invalid THEN "OK" ELSE "NOK"

\* Mutant: Client::builder().build() without .timeout(...).
ClientBuildNoTimeout == "no_timeout"

\* Lines 89-91: the client is built with .timeout(...).
ClientBuild == "with_timeout"

\* A pending request resolves when the endpoint answers or the transport
\* fails; with nothing arriving, only a client built with a timeout resolves.
Resolves(cl, beh) == beh.kind # "silent" \/ cl = "with_timeout"

\* Mutant: the verdict is logged once the valid probe has returned.
AfterValidProbeSkip(success) == "verdict"
\* Mutant: a failed probe is sent again.
AfterInvalidProbeRetry(success) == IF success THEN "verdict" ELSE "invalid_send"

\* The statement main goes on to when check_success returns: line 95 after
\* the valid probe, line 100 after the invalid one, whatever was returned.
AfterValidProbe(success) == "invalid_url"
AfterInvalidProbe(success) == "verdict"

\* Mutant: the verdict decides the exit status.
ExitStatusByVerdict(lines) == IF lines = <<"OK">> THEN 0 ELSE 1

\* Line 106: Ok(()) -- the exit status of a run that logged its verdict.
ExitStatus(lines) == 0

\* -------------------------------------------------------------------- state

VARIABLES
    cli,              \* the parsed command line: valid_url, invalid_url, alphabet
    pc,               \* the statement of main() to run next
    id,               \* let mut id
    client,           \* the reqwest Client: "none" until built
    valid_url,        \* let valid_url (after the join)
    invalid_url,      \* let invalid_url (after the join)
    valid_success,    \* let valid_success
    invalid_success,  \* let invalid_success
    inflight,         \* what the endpoint does with the request being awaited
    result,           \* what get_url returned for it
    log,              \* the lines logged at info level
    exit_code,        \* the process's exit status, -1 while it runs
    error,            \* the statement whose ? returned the Err, "none" if none
    sent,             \* history: the GETs issued, in order
    nanoid_calls,     \* history: how often nanoid! ran
    resolved          \* history: the probes whose check_success returned

vars ==
    <<cli, pc, id, client, valid_url, invalid_url, valid_success,
      invalid_success, inflight, result, log, exit_code, error, sent,
      nanoid_calls, resolved>>

\* Cli::parse(): the state main() starts from.
Init ==
    /\ cli \in [valid_url : ValidUrls, invalid_url : InvalidUrls,
                alphabet : SeqsUpTo(Chars, MaxAlphabetLen)]
    /\ pc = "generate"
    /\ id = <<>>
    /\ client = "none"
    /\ valid_url = UrlErr
    /\ invalid_url = UrlErr
    /\ valid_success = FALSE
    /\ invalid_success = FALSE
    /\ inflight = NoRequest
    /\ result = NoResult
    /\ log = <<>>
    /\ exit_code = -1
    /\ error = "none"
    /\ sent = <<>>
    /\ nanoid_calls = 0
    /\ resolved = {}

\* Lines 80-84: the identifier; nanoid! is skipped for the empty alphabet.
GenerateId ==
    /\ pc = "generate"
    /\ IF Len(cli.alphabet) # 0
       THEN /\ id' \in Nanoid(IdLen, cli.alphabet)
            /\ nanoid_calls' = nanoid_calls + 1
       ELSE /\ id' = <<>>
            /\ nanoid_calls' = nanoid_calls
    /\ pc' = "valid_url"
    /\ UNCHANGED <<cli, client, valid_url, invalid_url, valid_success,
                   invalid_success, inflight, result, log, exit_code, error,
                   sent, resolved>>

\* Lines 86-87: Url::parse(&cli.valid_url)?.join(&id)?
ParseValidUrl ==
    /\ pc = "valid_url"
    /\ LET u == ParseAndJoin(cli.valid_url, id)
       IN  IF u.ok
           THEN /\ valid_url' = u
                /\ pc' = "client"
                /\ UNCHANGED <<exit_code, error>>
           ELSE /\ pc' = "failed"
                /\ exit_code' = 1
                /\ error' = "valid_url"
                /\ UNCHANGED valid_url
    /\ UNCHANGED <<cli, id, client, invalid_url, valid_success,
                   invalid_success, inflight, result, log, sent,
                   nanoid_calls, resolved>>

\* Lines 89-91: Client::builder().timeout(...).build()?
BuildClient ==
    /\ pc = "client"
    /\ client' = ClientBuild
    /\ pc' = "valid_send"
    /\ UNCHANGED <<cli, id, valid_url, invalid_url, valid_success,
                   invalid_success, inflight, result, log, exit_code, error,
                   sent, nanoid_calls, resolved>>

\* Line 93 to get_url's send(): the GET to the valid endpoint goes out.
SendValid ==
    /\ pc = "valid_send"
    /\ sent' = Append(sent, [endpoint |-> "valid", url |-> valid_url])
    /\ inflight' \in Behaviours
    /\ result' = NoResult
    /\ pc' = "valid_wait"
    /\ UNCHANGED <<cli, id, client, valid_url, invalid_url, valid_success,
                   invalid_success, log, exit_code, error, nanoid_calls,
                   resolved>>

\* Line 93: get_url returns and check_success classifies the probe.
ResolveValid ==
    /\ pc = "valid_wait"
    /\ Resolves(client, inflight)
    /\ result' = get_url(inflight)
    /\ valid_success' = check_success(get_url(inflight))
    /\ resolved' = resolved \cup {"valid"}
    /\ pc' = AfterValidProbe(check_success(get_url(inflight)))
    /\ UNCHANGED <<cli, id, client, valid_url, invalid_url, invalid_success,
                   inflight, log, exit_code, error, sent, nanoid_calls>>

\* Lines 95-96: Url::parse(&cli.invalid_url)?.join(&id)?  The response of
\* the valid probe has been dropped by now.
ParseInvalidUrl ==
    /\ pc = "invalid_url"
    /\ LET u == ParseAndJoin(cli.invalid_url, id)
       IN  IF u.ok
           THEN /\ invalid_url' = u
                /\ pc' = "invalid_send"
                /\ UNCHANGED <<exit_code, error>>
           ELSE /\ pc' = "failed"
                /\ exit_code' = 1
                /\ error' = "invalid_url"
                /\ UNCHANGED invalid_url
    /\ inflight' = NoRequest
    /\ result' = NoResult
    /\ UNCHANGED <<cli, id, client, valid_url, valid_success,
                   invalid_success, log, sent, nanoid_calls, resolved>>

\* Line 98 to get_url's send(): the GET to the invalid endpoint goes out.
SendInvalid ==
    /\ pc = "invalid_send"
    /\ sent' = Append(sent, [endpoint |-> "invalid", url |-> invalid_url])
    /\ inflight' \in Behaviours
    /\ result' = NoResult
    /\ pc' = "invalid_wait"
    /\ UNCHANGED <<cli, id, client, valid_url, invalid_url, valid_success,
                   invalid_success, log, exit_code, error, nanoid_calls,
                   resolved>>

\* Line 98: get_url returns and check_success classifies the probe.
ResolveInvalid ==
    /\ pc = "invalid_wait"
    /\ Resolves(client, inflight)
    /\ result' = get_url(inflight)
    /\ invalid_success' = check_success(get_url(inflight))
    /\ resolved' = resolved \cup {"invalid"}
    /\ pc' = AfterInvalidProbe(check_success(get_url(inflight)))
    /\ UNCHANGED <<cli, id, client, valid_url, invalid_url, valid_success,
                   inflight, log, exit_code, error, sent, nanoid_calls>>

\* Lines 100-104: info!("OK") or info!("NOK").
LogVerdict ==
    /\ pc = "verdict"
    /\ log' = Append(log, Verdict(valid_success, invalid_success))
    /\ inflight' = NoRequest
    /\ result' = NoResult
    /\ pc' = "return"
    /\ UNCHANGED <<cli, id, client, valid_url, invalid_url, valid_success,
                   invalid_success, exit_code, error, sent, nanoid_calls,
                   resolved>>

\* Line 106: Ok(())
Return ==
    /\ pc = "return"
    /\ exit_code' = ExitStatus(log)
    /\ pc' = "done"
    /\ UNCHANGED <<cli, id, client, valid_url, invalid_url, valid_success,
                   invalid_success, inflight, result, log, error, sent,
                   nanoid_calls, resolved>>

Next ==
    \/ GenerateId
    \/ ParseValidUrl
    \/ BuildClient
    \/ SendValid
    \/ ResolveValid
    \/ ParseInvalidUrl
    \/ SendInvalid
    \/ ResolveInvalid
    \/ LogVerdict
    \/ Return

Spec == Init /\ [][Next]_vars

\* main() is one task that the runtime runs to completion: every statement
\* that can run does, and the client's timer fires.
FairSpec == Spec /\ WF_vars(Next)

\* ------------------------------------------------------------------- claims

Endpoints == {"valid", "invalid"}

\* The GETs issued to endpoint e so far.
GetsTo(e) == {i \in 1..Len(sent) : sent[i].endpoint = e}

BaseOf(e) == IF e = "valid" THEN cli.valid_url ELSE cli.invalid_url

\* Both base URLs parse and join with the identifier.
WellFormed ==
    /\ Parsed[cli.valid_url].ok /\ UrlJoin(Parsed[cli.valid_url], id).ok
    /\ Parsed[cli.invalid_url].ok /\ UrlJoin(Parsed[cli.invalid_url], id).ok

\* The outcome check_success has just returned (result is set).
LastOutcome == IF "invalid" \in resolved THEN invalid_success ELSE valid_success

\* The request just resolved failed in transport, timed out or did not decode.
LastFailed ==
    /\ result # NoResult
    /\ \/ inflight.kind \in {"transport", "silent"}
       \/ ~Decode(inflight.body)

\* C1: the verdict logged is OK exactly for (valid succeeded, invalid
\* failed), and NOK for each of the three other pairs of outcomes.
C1_VerdictTable ==
    log # <<>> =>
        /\ (valid_success /\ ~invalid_success) => log[1] = "OK"
        /\ (valid_success /\ invalid_success) => log[1] = "NOK"
        /\ (~valid_success /\ ~invalid_success) => log[1] = "NOK"
        /\ (~valid_success /\ invalid_success) => log[1] = "NOK"

C1_Witness == log = <<"OK">> /\ valid_success /\ ~invalid_success

\* C2: when the run has aborted on a malformed base URL, no GET has been
\* issued to either endpoint.
C2_NoGetBeforeConfigError == pc = "failed" => sent = <<>>

\* C3: a probe is classified as succeeded only when the endpoint answered
\* 200 with a body that decodes; any other status is a failure.
C3_SuccessOnlyOn200 ==
    result.ok =>
        /\ inflight.kind = "response"
        /\ inflight.status = 200
        /\ Decode(inflight.body)

\* C4: a transport error, a timeout or a decode error of a probe gives the
\* outcome false without aborting the run; with well-formed base URLs the
\* run goes on to the next probe and to the verdict.
C4_FailureIsLocal ==
    /\ [](LastFailed =>
            /\ ~LastOutcome
            /\ pc \in {"invalid_url", "verdict"}
            /\ exit_code = -1
            /\ error = "none")
    /\ (LastFailed /\ WellFormed)
            ~> (GetsTo("invalid") # {} /\ log # <<>> /\ exit_code = 0)

C4_Witness ==
    /\ pc = "done"
    /\ ~valid_success
    /\ ~invalid_success
    /\ log = <<"NOK">>

\* C5: a verdict line is logged only when both probes have resolved, never
\* while one is pending, and a run that reaches the verdict logs exactly
\* one line, OK or NOK.
C5_JoinBarrier ==
    /\ Len(log) <= 1
    /\ log # <<>> => (resolved = Endpoints /\ log[1] \in {"OK", "NOK"})
    /\ pc \in {"valid_wait", "invalid_wait"} => log = <<>>
    /\ pc \in {"return", "done"} => Len(log) = 1

C5_Witness == pc = "return" /\ Len(log) = 1 /\ resolved = Endpoints

C9_ExitZero ==
    /\ pc = "done" => (exit_code = 0 /\ log \in {<<"OK">>, <<"NOK">>})
    /\ pc \notin {"done", "failed"} => exit_code = -1

C9_Witness == pc = "done" /\ log = <<"NOK">> /\ exit_code = 0

\* C10: nanoid! runs at most once, before any GET is issued, and every GET
\* issued went to its endpoint's base URL joined with the identifier as it
\* is now (a non-empty identifier is the last path segment).
C10_SameIdentifier ==
    /\ nanoid_calls <= 1
    /\ pc = "generate" => (nanoid_calls = 0 /\ sent = <<>>)
    /\ (pc # "generate" /\ cli.alphabet # <<>>) => nanoid_calls = 1
    /\ \A i \in 1..Len(sent) :
          /\ sent[i].url = UrlJoin(Parsed[BaseOf(sent[i].endpoint)], id)
          /\ id # <<>> => sent[i].url.path[Len(sent[i].url.path)] = id

C10_Witness ==
    /\ Len(sent) = 2
    /\ id # <<>>
    /\ sent[1].endpoint = "valid"
    /\ sent[2].endpoint = "invalid"

====
